---- MODULE Spec2Model ----
(***************************************************************************)
(* Model of csv_to_postgresql (src/src/main.rs): the main thread spawns    *)
(* max_threads workers, walks the directory and sends every csv file on an *)
(* spmc channel; each worker connects to PostgreSQL, receives entries and  *)
(* runs process_file on them; main then joins the workers.                 *)
(*                                                                         *)
(* Text is modelled as sequences of one-character strings, so that         *)
(* to_lowercase, split, file_stem, the futures regex, parse::<usize> and   *)
(* format! are computed and not assumed.                                   *)
(***************************************************************************)
EXTENDS Integers, Sequences, FiniteSets, Bags, TLC

\* ------------------------------------------------------------------ bounds
MaxThreads == 2   \* --threads is drawn from 0..MaxThreads
MaxEntries == 2   \* the walk yields at most this many directory entries
MaxLoad == 4      \* a run has at most this many threads and entries together
MaxSymLen == 4    \* enumerated symbol segments have at most this many characters

\* -------------------------------------------------------------------- text
UpperLetters ==
  <<"A","B","C","D","E","F","G","H","I","J","K","L","M",
    "N","O","P","Q","R","S","T","U","V","W","X","Y","Z">>

LowerLetters ==
  <<"a","b","c","d","e","f","g","h","i","j","k","l","m",
    "n","o","p","q","r","s","t","u","v","w","x","y","z">>

DigitChars == <<"0","1","2","3","4","5","6","7","8","9">>

Range(s) == {s[i] : i \in 1..Len(s)}

IsUpper(c) == c \in Range(UpperLetters)
IsLower(c) == c \in Range(LowerLetters)
IsDigit(c) == c \in Range(DigitChars)

\* char::to_lowercase on the characters of the model's alphabet
LowerChar(c) ==
  IF IsUpper(c) THEN LowerLetters[CHOOSE i \in 1..26 : UpperLetters[i] = c] ELSE c

RECURSIVE to_lowercase(_)
to_lowercase(s) ==
  IF s = <<>> THEN <<>> ELSE <<LowerChar(Head(s))>> \o to_lowercase(Tail(s))

\* str::split(sep): the segments between the separators, empty ones included
RECURSIVE split(_, _)
split(s, sep) ==
  IF \A i \in 1..Len(s) : s[i] # sep
  THEN <<s>>
  ELSE LET i == CHOOSE k \in 1..Len(s) :
                  s[k] = sep /\ \A j \in 1..(k - 1) : s[j] # sep
       IN <<SubSeq(s, 1, i - 1)>> \o split(SubSeq(s, i + 1, Len(s)), sep)

\* Path::file_stem: the name up to its last '.', the whole name when it has no
\* '.' or only a leading one
file_stem(name) ==
  LET dots == {i \in 1..Len(name) : name[i] = "."}
  IN IF dots = {} THEN name
     ELSE LET last == CHOOSE i \in dots : \A j \in dots : j <= i
          IN IF last = 1 THEN name ELSE SubSeq(name, 1, last - 1)

DigitValue(c) == (CHOOSE i \in 1..10 : DigitChars[i] = c) - 1

\* str::parse::<usize> of a run of ASCII digits
RECURSIVE parse_usize(_)
parse_usize(ds) ==
  IF ds = <<>> THEN 0
  ELSE 10 * parse_usize(SubSeq(ds, 1, Len(ds) - 1)) + DigitValue(ds[Len(ds)])

\* usize::MAX of a 64-bit target, in decimal
UsizeMaxDigits ==
  <<"1","8","4","4","6","7","4","4","0","7","3","7","0","9","5","5","1","6","1","5">>

RECURSIVE StripLeadingZeros(_)
StripLeadingZeros(ds) ==
  IF ds # <<>> /\ Head(ds) = "0" THEN StripLeadingZeros(Tail(ds)) ELSE ds

\* a <= b for two digit runs of the same length
DigitsLeq(a, b) ==
  \/ a = b
  \/ \E i \in 1..Len(a) :
       /\ \A k \in 1..(i - 1) : a[k] = b[k]
       /\ DigitValue(a[i]) < DigitValue(b[i])

\* str::parse::<usize> is Ok on a run of ASCII digits unless the value is
\* larger than usize::MAX
ParsesAsUsize(ds) ==
  LET sig == StripLeadingZeros(ds)
  IN \/ Len(sig) < Len(UsizeMaxDigits)
     \/ Len(sig) = Len(UsizeMaxDigits) /\ DigitsLeq(sig, UsizeMaxDigits)

\* format!("{}", n) of an unsigned integer
RECURSIVE FormatInt(_)
FormatInt(n) ==
  IF n < 10 THEN <<DigitChars[n + 1]>>
  ELSE FormatInt(n \div 10) \o <<DigitChars[(n % 10) + 1]>>

\* format!("{:02}", n)
FormatInt02(n) == IF n < 10 THEN <<"0">> \o FormatInt(n) ELSE FormatInt(n)

\* ------------------------------------------------- futures decomposition
\* Err(..) of cme_month_letter_to_number
MonthErr == 0

\* variant: the table is keyed by the upper-case letters of the pattern
cme_month_letter_to_number_UpperKeys(letter) ==
  CASE letter = <<"F">> -> 1
    [] letter = <<"G">> -> 2
    [] letter = <<"J">> -> 4
    [] letter = <<"K">> -> 5
    [] letter = <<"H">> -> 3
    [] letter = <<"M">> -> 6
    [] letter = <<"N">> -> 7
    [] letter = <<"Q">> -> 8
    [] letter = <<"U">> -> 9
    [] letter = <<"V">> -> 10
    [] letter = <<"X">> -> 11
    [] letter = <<"Z">> -> 12
    [] OTHER -> MonthErr

cme_month_letter_to_number(letter) ==
  CASE letter = <<"f">> -> 1
    [] letter = <<"g">> -> 2
    [] letter = <<"j">> -> 4
    [] letter = <<"k">> -> 5
    [] letter = <<"h">> -> 3
    [] letter = <<"m">> -> 6
    [] letter = <<"n">> -> 7
    [] letter = <<"q">> -> 8
    [] letter = <<"u">> -> 9
    [] letter = <<"v">> -> 10
    [] letter = <<"x">> -> 11
    [] letter = <<"z">> -> 12
    [] OTHER -> MonthErr

complete_short_year(year) ==
  IF year >= 40 THEN year + 1900
  ELSE IF year < 40 THEN year + 2000
  ELSE year

\* the character classes of futures_regex, under its (?i) flag
RegexRootChar(c) == c = "@" \/ IsUpper(c) \/ IsLower(c)
RegexMonthChar(c) ==
  LowerChar(c) \in {"f","g","h","j","k","m","n","q","u","v","x","z"}

\* ^(?i)(?P<root>[@A-Z]+)(?P<month>[FGHJKMNQUVXZ])(?P<year>\d+)$ :
\* the positions i of the month letter at which the three groups cover s
RegexMatches(s) ==
  {i \in 2..(Len(s) - 1) :
     /\ \A k \in 1..(i - 1) : RegexRootChar(s[k])
     /\ RegexMonthChar(s[i])
     /\ \A k \in (i + 1)..Len(s) : IsDigit(s[k])}

NoCaptures == [matched |-> FALSE]

futures_regex_captures(s) ==
  IF RegexMatches(s) = {} THEN NoCaptures
  ELSE LET i == CHOOSE k \in RegexMatches(s) : TRUE
       IN [matched |-> TRUE,
           root |-> SubSeq(s, 1, i - 1),
           month |-> <<s[i]>>,
           year |-> SubSeq(s, i + 1, Len(s))]

\* ------------------------------------------- process_file, before the rows
\* variant: the check of line 179 written as len() < 6
SegmentCountOk_AtLeast(name_segments) == Len(name_segments) >= 6

\* name_segments.len() != 6 is the skip of line 179
SegmentCountOk(name_segments) == Len(name_segments) = 6

\* variant: the None arm of the match yields no root
SymbolParts_EmptyRoot(symbol) ==
  LET x == futures_regex_captures(symbol)
  IN IF x.matched
     THEN [symbol_root |-> x.root,
           contract_month |-> x.month,
           contract_year |-> parse_usize(x.year)]
     ELSE [symbol_root |-> <<>>, contract_month |-> <<>>, contract_year |-> 0]

\* the triple bound at lines 194-201
SymbolParts(symbol) ==
  LET x == futures_regex_captures(symbol)
  IN IF x.matched
     THEN [symbol_root |-> x.root,
           contract_month |-> x.month,
           contract_year |-> parse_usize(x.year)]
     ELSE [symbol_root |-> symbol, contract_month |-> <<>>, contract_year |-> 0]

\* year.as_str().parse::<usize>().unwrap() of line 198 panics on Err
YearParsePanics(symbol) ==
  LET x == futures_regex_captures(symbol)
  IN x.matched /\ ~ParsesAsUsize(x.year)

\* the ("", 0) arm of the match at line 203
IsNoContract(contract_month, contract_year) ==
  contract_month = <<>> /\ contract_year = 0

\* cme_month_letter_to_number(&month).unwrap() panics on Err
MonthLookupPanics(contract_month, contract_year) ==
  /\ ~IsNoContract(contract_month, contract_year)
  /\ cme_month_letter_to_number(contract_month) = MonthErr

\* contract_date of lines 203-211
ContractDate(contract_month, contract_year) ==
  IF IsNoContract(contract_month, contract_year) THEN <<>>
  ELSE FormatInt(complete_short_year(contract_year)) \o <<"-">>
         \o FormatInt02(cme_month_letter_to_number(contract_month))
         \o <<"-", "0", "1">>

TimeframeSupported(timeframe) ==
  timeframe = <<"d","a","y">> \/ timeframe = <<"m","i","n","u","t","e">>

\* process_file from its entry to the timeframe check (lines 175-216): what it
\* decided ("skip_segments", "panic_year", "panic_month", "skip_timeframe" or
\* "proceed") and the values it bound on the way
ProcessFileHead(file_name) ==
  LET lowercase_file_name == to_lowercase(file_stem(file_name))
      name_segments == split(lowercase_file_name, "-")
  IN IF ~SegmentCountOk(name_segments)
     THEN [outcome |-> "skip_segments"]
     ELSE IF YearParsePanics(name_segments[1])
     THEN [outcome |-> "panic_year"]
     ELSE LET p == SymbolParts(name_segments[1])
          IN IF MonthLookupPanics(p.contract_month, p.contract_year)
             THEN [outcome |-> "panic_month"]
             ELSE [outcome |-> IF TimeframeSupported(name_segments[5])
                               THEN "proceed" ELSE "skip_timeframe",
                   symbol |-> name_segments[1],
                   symbol_root |-> p.symbol_root,
                   contract_month |-> p.contract_month,
                   contract_year |-> p.contract_year,
                   contract_date |-> ContractDate(p.contract_month, p.contract_year),
                   timeframe |-> name_segments[5]]

\* ------------------------------------------------------- directory entries
Mid == <<"-","a","-","b","-","c","-">>   \* -datasource-exchange-type-
Day == <<"d","a","y">>
Minute == <<"m","i","n","u","t","e">>
Hour == <<"h","o","u","r">>
FieldCsv == <<"-","f",".","c","s","v">>
FieldCsvUpper == <<"-","F",".","C","S","V">>

DayColumns == {"Date", "Open", "High", "Low", "Close", "TotalVolume"}
MinuteColumns == DayColumns \cup {"Time"}

\* A file: its name, whether csv::Reader::from_path can open it, the columns of
\* its header, and its records in reader order: t > 0 is a record whose Date
\* (and Time) is t, 0 is a record the reader cannot decode. utf8: the name is
\* valid UTF-8; header_ok: the reader can decode the header line.
File(name, readable, header, rows) ==
  [kind |-> "file", name |-> name, readable |-> readable,
   header |-> header, rows |-> rows, utf8 |-> TRUE, header_ok |-> TRUE]

FuturesDayFile ==
  File(<<"@","V","X","J","2","0">> \o Mid \o Day \o FieldCsv,
       TRUE, DayColumns, <<1, 2>>)
MinuteFileBadRecord ==
  File(<<"E","S">> \o Mid \o Minute \o FieldCsvUpper,
       TRUE, MinuteColumns, <<1, 0, 2>>)
DayFileNoDate ==
  File(<<"E","S">> \o Mid \o Day \o FieldCsv,
       TRUE, DayColumns \ {"Date"}, <<1>>)
FiveSegmentFile ==
  File(<<"E","S","-","a","-","b","-">> \o Day \o FieldCsv,
       TRUE, DayColumns, <<1>>)
SevenSegmentFile ==
  File(<<"E","-","S","-","a","-","b","-">> \o Day \o <<"-","c">> \o FieldCsv,
       TRUE, DayColumns, <<1>>)
Directory ==
  [kind |-> "dir", name |-> <<"s","u","b">>, readable |-> FALSE,
   header |-> {}, rows |-> <<>>, utf8 |-> TRUE, header_ok |-> TRUE]

\* entries for the scanner and for the ways a file is not processed
BareCsvFile == File(<<"c","s","v">>, TRUE, DayColumns, <<1>>)
TextFile == File(<<"n",".","t","x","t">>, TRUE, DayColumns, <<1>>)
DottedDirectory == [Directory EXCEPT !.name = <<"d",".","t","x","t">>]
WalkError == [Directory EXCEPT !.kind = "error", !.name = <<>>]
NonUtf8File ==
  [File(<<"?",".","c","s","v">>, TRUE, DayColumns, <<1>>) EXCEPT !.utf8 = FALSE]
HourFile ==
  File(<<"E","S">> \o Mid \o Hour \o FieldCsv, TRUE, DayColumns, <<1>>)
Nines == [i \in 1..Len(UsizeMaxDigits) |-> "9"]
HourFileLongYear ==
  File(<<"E","J">> \o Nines \o Mid \o Hour \o FieldCsv, TRUE, DayColumns, <<1>>)
UnreadableDayFile ==
  File(<<"E","S">> \o Mid \o Day \o FieldCsv, FALSE, DayColumns, <<1>>)
BadHeaderDayFile ==
  [File(<<"E","S">> \o Mid \o Day \o FieldCsv, TRUE, {}, <<1>>)
     EXCEPT !.header_ok = FALSE]

\* the entries a walk is made of, by a short name
Catalogue ==
  [futures_day |-> FuturesDayFile,
   minute_bad_record |-> MinuteFileBadRecord,
   day_no_date |-> DayFileNoDate,
   five_segments |-> FiveSegmentFile,
   seven_segments |-> SevenSegmentFile,
   directory |-> Directory,
   bare_csv |-> BareCsvFile,
   text_file |-> TextFile,
   dotted_directory |-> DottedDirectory,
   walk_error |-> WalkError,
   non_utf8 |-> NonUtf8File,
   hour_file |-> HourFile,
   hour_long_year |-> HourFileLongYear,
   unreadable_day |-> UnreadableDayFile,
   bad_header_day |-> BadHeaderDayFile]

\* the entries of the walks of Spec
EntryKinds ==
  {"futures_day", "minute_bad_record", "day_no_date", "five_segments",
   "seven_segments", "directory"}

\* the entries of the walks of ScanSpec
ScanKinds ==
  {"bare_csv", "text_file", "dotted_directory", "walk_error", "non_utf8",
   "hour_file", "hour_long_year", "unreadable_day", "bad_header_day",
   "minute_bad_record"}

\* the walks of at most MaxEntries entries, in the order WalkDir yields them
Walks == UNION {[1..n -> EntryKinds] : n \in 0..MaxEntries}

ScanWalks == UNION {[1..n -> ScanKinds] : n \in 0..MaxEntries}

\* entry.file_name().to_str().unwrap() of line 17 panics on a name that is not
\* valid UTF-8
CsvFilterPanics(entry) == entry.kind # "error" /\ ~entry.utf8

\* csv_filter (lines 15-29); split('.').last() is never None
csv_filter(entry) ==
  LET lowercase_file_name == to_lowercase(entry.name)
      parts == split(lowercase_file_name, ".")
      file_ext == parts[Len(parts)]
  IN file_ext = <<"c","s","v">> \/ entry.kind = "dir"

\* e.file_type().is_file() of an Ok entry that passed the filter (line 369)
ScannerSends(entry) ==
  /\ entry.kind # "error"
  /\ ~CsvFilterPanics(entry)
  /\ csv_filter(entry)
  /\ entry.kind = "file"

\* ------------------------------------------------------------------- state
VARIABLES
  threads,    \* max_threads
  entries,    \* what the walk yields, in order
  pc,         \* main: "spawn", "scan", "join", "done", "panicked", "exited"
  spawned,    \* threads spawned so far (the loop of line 320)
  scanpos,    \* entries the scanner loop has consumed
  joined,     \* handles whose join() has returned (the loop of line 382)
  exit_code,  \* -1 while the process runs, then 0 or 101
  queue,      \* the items sent and not yet received
  closed,     \* the Sender tx has been dropped
  wstate,     \* worker: "unspawned", "connect", "recv", "rows", "drained",
              \*   "panicked", "killed"
  wfile,      \* the entry a worker's process_file is on (0: none)
  wrow,       \* the next record of that file
  wfail,      \* what made a worker panic ("none" while it has not)
  received,   \* per worker, the entries recv() returned to it, in order
  prepares,   \* per worker, the times it prepared the two statements
  flog,       \* per entry, what process_file did with it
  table,      \* the rows of bars, a bag of primary keys
  noops,      \* executes that hit ON CONFLICT and returned Ok
  pin,        \* a file name given to process_file alone
  pout        \* what process_file's head made of pin

main_vars == <<threads, entries, pc, spawned, scanpos, joined, exit_code>>
chan_vars == <<queue, closed>>
worker_vars == <<wstate, wfile, wrow, wfail, received, prepares>>
db_vars == <<flog, table, noops>>
parse_vars == <<pin, pout>>
vars == <<main_vars, chan_vars, worker_vars, db_vars, parse_vars>>

Workers == 1..MaxThreads

\* the DirEntry at position e of the walk
Entry(e) == Catalogue[entries[e]]

\* process_file's head on every entry of the catalogue
CatalogueHeads ==
  [k \in DOMAIN Catalogue |-> ProcessFileHead(Catalogue[k].name)]
HeadOf(e) == CatalogueHeads[entries[e]]

NoLog ==
  [outcome |-> "none", opened |-> FALSE, prepared |-> 0, read |-> 0,
   execd |-> <<>>, failrow |-> 0]

NotParsed == [outcome |-> "none"]

PipelineStart(n, walk) ==
  /\ threads = n
  /\ entries = walk
  /\ pc = "spawn"
  /\ spawned = 0
  /\ scanpos = 0
  /\ joined = 0
  /\ exit_code = -1
  /\ queue = <<>>
  /\ closed = FALSE
  /\ wstate = [w \in Workers |-> "unspawned"]
  /\ wfile = [w \in Workers |-> 0]
  /\ wrow = [w \in Workers |-> 0]
  /\ wfail = [w \in Workers |-> "none"]
  /\ received = [w \in Workers |-> <<>>]
  /\ prepares = [w \in Workers |-> 0]
  /\ flog = [e \in 1..Len(walk) |-> NoLog]
  /\ table = EmptyBag
  /\ noops = 0

Init ==
  /\ \E n \in 0..MaxThreads, walk \in Walks :
       n + Len(walk) <= MaxLoad /\ PipelineStart(n, walk)
  /\ pin = <<>>
  /\ pout = NotParsed

\* ------------------------------------------------------------- main thread
\* thread::spawn of line 330, once per iteration of the loop of line 320
MainSpawn ==
  /\ pc = "spawn"
  /\ spawned < threads
  /\ spawned' = spawned + 1
  /\ wstate' = [wstate EXCEPT ![spawned + 1] = "connect"]
  /\ UNCHANGED <<threads, entries, pc, scanpos, joined, exit_code>>
  /\ UNCHANGED <<chan_vars, wfile, wrow, wfail, received, prepares>>
  /\ UNCHANGED <<db_vars, parse_vars>>

MainSpawnEnd ==
  /\ pc = "spawn"
  /\ spawned = threads
  /\ pc' = "scan"
  /\ UNCHANGED <<threads, entries, spawned, scanpos, joined, exit_code>>
  /\ UNCHANGED <<chan_vars, worker_vars, db_vars, parse_vars>>

\* tx.send(e): the item joins the queue; it cannot fail while main holds rx
ChannelAfterSend(q, item) == Append(q, item)

\* one iteration of the scanner loop (lines 366-380); a panic of csv_filter
\* unwinds main and drops tx
MainScan ==
  /\ pc = "scan"
  /\ scanpos < Len(entries)
  /\ scanpos' = scanpos + 1
  /\ IF CsvFilterPanics(Entry(scanpos + 1))
     THEN pc' = "panicked" /\ closed' = TRUE /\ queue' = queue
     ELSE /\ pc' = pc
          /\ closed' = closed
          /\ queue' = IF ScannerSends(Entry(scanpos + 1))
                      THEN ChannelAfterSend(queue, scanpos + 1)
                      ELSE queue
  /\ UNCHANGED <<threads, entries, spawned, joined, exit_code>>
  /\ UNCHANGED <<worker_vars, db_vars, parse_vars>>

\* the walk is exhausted: main goes on to the join loop, tx still alive
MainScanEnd ==
  /\ pc = "scan"
  /\ scanpos = Len(entries)
  /\ pc' = "join"
  /\ UNCHANGED <<threads, entries, spawned, scanpos, joined, exit_code>>
  /\ UNCHANGED <<chan_vars, worker_vars, db_vars, parse_vars>>

\* JoinHandle::join returns once the thread has ended
ThreadEnded(state) == state \in {"drained", "panicked"}

\* variant: the result of join() is dropped instead of unwrapped
JoinUnwrapPanics_Ignored(state) == FALSE

\* join() is Err when the thread panicked, and .unwrap() then panics main
JoinUnwrapPanics(state) == state = "panicked"

\* handle.join().unwrap() (line 383); a panic of main unwinds and drops tx
MainJoin ==
  /\ pc = "join"
  /\ joined < threads
  /\ ThreadEnded(wstate[joined + 1])
  /\ joined' = joined + 1
  /\ IF JoinUnwrapPanics(wstate[joined + 1])
     THEN pc' = "panicked" /\ closed' = TRUE
     ELSE pc' = pc /\ closed' = closed
  /\ UNCHANGED <<threads, entries, spawned, scanpos, exit_code>>
  /\ UNCHANGED <<queue, worker_vars, db_vars, parse_vars>>

\* main gets past the join loop and returns (line 385), dropping tx
MainReturn ==
  /\ pc = "join"
  /\ joined = threads
  /\ pc' = "done"
  /\ closed' = TRUE
  /\ UNCHANGED <<threads, entries, spawned, scanpos, joined, exit_code>>
  /\ UNCHANGED <<queue, worker_vars, db_vars, parse_vars>>

\* the process exits once main has returned or panicked; threads still
\* running are ended with it
MainExit ==
  /\ pc \in {"done", "panicked"}
  /\ pc' = "exited"
  /\ exit_code' = IF pc = "done" THEN 0 ELSE 101
  /\ wstate' = [w \in Workers |->
                  IF wstate[w] \in {"connect", "recv", "rows"}
                  THEN "killed" ELSE wstate[w]]
  /\ UNCHANGED <<threads, entries, spawned, scanpos, joined>>
  /\ UNCHANGED <<chan_vars, wfile, wrow, wfail, received, prepares>>
  /\ UNCHANGED <<db_vars, parse_vars>>

MainStep ==
  \/ MainSpawn
  \/ MainSpawnEnd
  \/ MainScan
  \/ MainScanEnd
  \/ MainJoin
  \/ MainReturn
  \/ MainExit

\* ----------------------------------------------------------------- workers
\* a panic of the worker thread while it is on entry e (0: none)
WorkerPanics(w, e, why) ==
  /\ wstate' = [wstate EXCEPT ![w] = "panicked"]
  /\ wfail' = [wfail EXCEPT ![w] = why]
  /\ wfile' = [wfile EXCEPT ![w] = e]

\* prepare_client(..) of line 337: connect(NoTls).unwrap()
WorkerConnect(w) ==
  /\ wstate[w] = "connect"
  /\ \E connected \in BOOLEAN :
       IF connected
       THEN /\ wstate' = [wstate EXCEPT ![w] = "recv"]
            /\ UNCHANGED <<wfile, wfail>>
       ELSE WorkerPanics(w, 0, "connect")
  /\ UNCHANGED <<wrow, received, prepares>>
  /\ UNCHANGED <<main_vars, chan_vars, db_vars, parse_vars>>

\* variant: recv() returns the oldest item and leaves it in the queue
ChannelAfterRecv_Peek(q) == q

\* rx.recv() hands over the oldest item and removes it from the queue
ChannelAfterRecv(q) == Tail(q)

\* process_file returns to the worker loop
BackToRecv(w) ==
  /\ wstate' = [wstate EXCEPT ![w] = "recv"]
  /\ wfile' = [wfile EXCEPT ![w] = 0]
  /\ wrow' = [wrow EXCEPT ![w] = 0]
  /\ UNCHANGED wfail

\* rx.recv() is Ok(entry_value): process_file up to its first record
\* (lines 348-243)
WorkerRecvItem(w) ==
  /\ wstate[w] = "recv"
  /\ queue # <<>>
  /\ LET e == Head(queue)
         h == HeadOf(e)
     IN /\ queue' = ChannelAfterRecv(queue)
        /\ received' = [received EXCEPT ![w] = Append(@, e)]
        /\ CASE h.outcome \in {"skip_segments", "skip_timeframe"} ->
                  /\ flog' = [flog EXCEPT ![e].outcome = "skip"]
                  /\ UNCHANGED <<wstate, wfile, wrow, wfail, prepares>>
             [] h.outcome = "panic_year" ->
                  /\ flog' = [flog EXCEPT ![e].outcome = "panic"]
                  /\ WorkerPanics(w, e, "year")
                  /\ UNCHANGED <<wrow, prepares>>
             [] h.outcome = "panic_month" ->
                  /\ flog' = [flog EXCEPT ![e].outcome = "panic"]
                  /\ WorkerPanics(w, e, "month")
                  /\ UNCHANGED <<wrow, prepares>>
             [] h.outcome = "proceed" /\ ~Entry(e).readable ->
                  /\ flog' = [flog EXCEPT ![e].outcome = "open_error"]
                  /\ UNCHANGED <<wstate, wfile, wrow, wfail, prepares>>
             [] h.outcome = "proceed" /\ Entry(e).readable ->
                  \E prepared \in BOOLEAN :
                    IF ~prepared
                    THEN /\ flog' = [flog EXCEPT ![e].opened = TRUE,
                                                 ![e].outcome = "panic"]
                         /\ WorkerPanics(w, e, "prepare")
                         /\ UNCHANGED <<wrow, prepares>>
                    ELSE /\ prepares' = [prepares EXCEPT ![w] = @ + 1]
                         /\ IF Entry(e).rows = <<>>
                            THEN /\ flog' = [flog EXCEPT ![e].opened = TRUE,
                                                         ![e].prepared = @ + 1,
                                                         ![e].outcome = "done"]
                                 /\ UNCHANGED <<wstate, wfile, wrow, wfail>>
                            ELSE /\ flog' = [flog EXCEPT ![e].opened = TRUE,
                                                         ![e].prepared = @ + 1]
                                 /\ wstate' = [wstate EXCEPT ![w] = "rows"]
                                 /\ wfile' = [wfile EXCEPT ![w] = e]
                                 /\ wrow' = [wrow EXCEPT ![w] = 1]
                                 /\ UNCHANGED wfail
  /\ UNCHANGED <<main_vars, closed, table, noops, parse_vars>>

\* variant: an empty queue is taken for the end of the stream
WorkerRecvEnd_EmptyMeansDone(w) ==
  /\ wstate[w] = "recv"
  /\ queue = <<>>
  /\ wstate' = [wstate EXCEPT ![w] = "drained"]
  /\ UNCHANGED <<wfile, wrow, wfail, received, prepares>>
  /\ UNCHANGED <<main_vars, chan_vars, db_vars, parse_vars>>

\* rx.recv() is Err: the queue is empty and the Sender is gone (lines 357-360)
WorkerRecvEnd(w) ==
  /\ wstate[w] = "recv"
  /\ queue = <<>>
  /\ closed
  /\ wstate' = [wstate EXCEPT ![w] = "drained"]
  /\ UNCHANGED <<wfile, wrow, wfail, received, prepares>>
  /\ UNCHANGED <<main_vars, chan_vars, db_vars, parse_vars>>

RequiredColumns(timeframe) ==
  IF timeframe = Minute THEN MinuteColumns ELSE DayColumns

\* the primary key (symbol, barsize, contract, "timestamp") of the row bound
\* from a record with Date (and Time) t
RowKey(h, t) == <<h.symbol_root, h.timeframe, h.contract_date, t>>

\* variant: a plain INSERT on a table without the primary key
Insert_NoConflictClause(rows, key) == rows (+) SetToBag({key})

\* INSERT .. ON CONFLICT ON CONSTRAINT bars_daily_pkey DO NOTHING
InsertOnConflictDoNothing(rows, key) ==
  IF BagIn(key, rows) THEN rows ELSE rows (+) SetToBag({key})

\* variant: a failing record is logged and the loop goes on with the next one
RowFails_SkipRecord(w, e, i, why) ==
  /\ flog' = [flog EXCEPT ![e].read = @ + 1,
                          ![e].failrow = i,
                          ![e].outcome =
                             IF i = Len(Entry(e).rows) THEN "done" ELSE @]
  /\ IF i = Len(Entry(e).rows)
     THEN /\ wstate' = [wstate EXCEPT ![w] = "recv"]
          /\ wfile' = [wfile EXCEPT ![w] = 0]
          /\ wrow' = [wrow EXCEPT ![w] = 0]
     ELSE /\ wrow' = [wrow EXCEPT ![w] = i + 1]
          /\ UNCHANGED <<wstate, wfile>>
  /\ UNCHANGED <<wfail, table, noops>>

\* row_result.unwrap(), row["Date"] .. and client.execute(..).unwrap() panic
\* the worker on record i of entry e
RowFails(w, e, i, why) ==
  /\ flog' = [flog EXCEPT ![e].read = @ + 1,
                          ![e].failrow = i,
                          ![e].outcome = "panic"]
  /\ WorkerPanics(w, e, why)
  /\ UNCHANGED <<wrow, table, noops>>

\* one iteration of the record loop (lines 244-272); after the last record
\* process_file returns
WorkerRow(w) ==
  /\ wstate[w] = "rows"
  /\ LET e == wfile[w]
         i == wrow[w]
         t == Entry(e).rows[i]
         h == HeadOf(e)
     IN IF t = 0 \/ ~Entry(e).header_ok
        THEN RowFails(w, e, i, "decode")
        ELSE IF ~(RequiredColumns(h.timeframe) \subseteq Entry(e).header)
        THEN RowFails(w, e, i, "column")
        ELSE \E executed \in BOOLEAN :
               IF ~executed
               THEN RowFails(w, e, i, "execute")
               ELSE /\ table' = InsertOnConflictDoNothing(table, RowKey(h, t))
                    /\ noops' = IF BagIn(RowKey(h, t), table)
                                THEN noops + 1 ELSE noops
                    /\ IF i = Len(Entry(e).rows)
                       THEN /\ flog' = [flog EXCEPT ![e].read = @ + 1,
                                                    ![e].execd = Append(@, i),
                                                    ![e].outcome = "done"]
                            /\ BackToRecv(w)
                       ELSE /\ flog' = [flog EXCEPT ![e].read = @ + 1,
                                                    ![e].execd = Append(@, i)]
                            /\ wrow' = [wrow EXCEPT ![w] = i + 1]
                            /\ UNCHANGED <<wstate, wfile, wfail>>
  /\ UNCHANGED <<received, prepares>>
  /\ UNCHANGED <<main_vars, chan_vars, parse_vars>>

WorkerStep(w) ==
  \/ WorkerConnect(w)
  \/ WorkerRecvItem(w)
  \/ WorkerRecvEnd(w)
  \/ WorkerRow(w)

Next ==
  \/ MainStep
  \/ \E w \in Workers : WorkerStep(w)

Spec == Init /\ [][Next]_vars

\* ------------------------------- the same program on the scanner's entries
ScanInit ==
  /\ \E n \in 0..MaxThreads, walk \in ScanWalks :
       n + Len(walk) <= MaxLoad /\ PipelineStart(n, walk)
  /\ pin = <<>>
  /\ pout = NotParsed

ScanSpec == ScanInit /\ [][Next]_vars

\* ------------------------------------------- process_file's head, on its own
SymbolAlphabet == {"@", "E", "J", "j", "-", "0", "3", "4", "9"}

SampleSymbols ==
  {<<"@","V","X","J","2","0">>, <<"@","V","X","J","6","5">>,
   <<"@","V","X","J","3","9">>, <<"@","v","x","z","0","0">>,
   <<"E","J","1","2","0">>, <<"E","J","9","9","9","9">>,
   <<"E","J">> \o Nines}

ParseSymbols ==
  SampleSymbols \cup UNION {[1..n -> SymbolAlphabet] : n \in 0..MaxSymLen}

ParseNames ==
  {symbol \o Mid \o timeframe \o FieldCsv :
     symbol \in ParseSymbols, timeframe \in {Day, Hour}}

ParseInit ==
  /\ PipelineStart(0, <<>>)
  /\ pin \in ParseNames
  /\ pout = NotParsed

\* process_file is entered with the entry named pin
ParseApply ==
  /\ pout = NotParsed
  /\ pout' = ProcessFileHead(pin)
  /\ UNCHANGED <<pin, main_vars, chan_vars, worker_vars, db_vars>>

ParseNext == ParseApply

ParseSpec == ParseInit /\ [][ParseNext]_vars

\* ================================================================== claims
Running(w) == wstate[w] \in {"recv", "rows"}
Drained(w) == wstate[w] = "drained"
Spawnable == 1..threads
ScanFinished == pc \in {"join", "done", "panicked", "exited"}
\* main got past its join loop
RunComplete == pc = "done" \/ (pc = "exited" /\ exit_code = 0)
RowFailures == {"decode", "column", "execute"}

\* C1: with at least one worker, once the scanner has finished the run goes
\* on to its end: as long as the process has not exited some thread can take
\* a step, so no worker and no join blocks forever.
C1_NeverBlocksForever ==
  (threads >= 1 /\ ScanFinished /\ pc # "exited") => ENABLED Next

\* occurrences of x in the sequence s
RECURSIVE Occurrences(_, _)
Occurrences(s, x) ==
  IF s = <<>> THEN 0
  ELSE (IF Head(s) = x THEN 1 ELSE 0) + Occurrences(Tail(s), x)

RECURSIVE ReceivedBy(_, _)
ReceivedBy(ws, x) ==
  IF ws = {} THEN 0
  ELSE LET w == CHOOSE v \in ws : TRUE
       IN Occurrences(received[w], x) + ReceivedBy(ws \ {w}, x)

WasSent(e) == e <= scanpos /\ ScannerSends(Entry(e))

\* C2: every item sent is either still in the queue, once, or was received
\* exactly once by exactly one worker; nothing else is ever received.
C2_ExactlyOnce ==
  \A e \in 1..Len(entries) :
    Occurrences(queue, e) + ReceivedBy(Workers, e) = IF WasSent(e) THEN 1 ELSE 0

\* two workers have each received an item
C2_Witness ==
  \E v, w \in Workers : v # w /\ received[v] # <<>> /\ received[w] # <<>>

\* C3: a failing row abandons only its file: the worker that was on it is
\* not taken down.
C3_RowFailureContained ==
  \A w \in Workers : wfail[w] \in RowFailures => wstate[w] # "panicked"

C5_ConnectFailureJoinsAll ==
  (pc = "exited" /\ \E w \in Spawnable : wfail[w] = "connect")
    => exit_code # 0 /\ joined = threads

RECURSIVE ExecutedRows(_)
ExecutedRows(n) == IF n = 0 THEN 0 ELSE Len(flog[n].execd) + ExecutedRows(n - 1)

\* C6: the table holds one row per key, and every execute that returned Ok
\* either added its row or met its key and changed nothing.
C6_OneRowPerKey ==
  /\ \A k \in BagToSet(table) : CopiesIn(k, table) = 1
  /\ ExecutedRows(Len(entries)) = BagCardinality(table) + noops

\* two files have had rows executed and an insert met an existing key
C6_Witness ==
  /\ noops > 0
  /\ \E d, e \in 1..Len(entries) :
       d # e /\ flog[d].execd # <<>> /\ flog[e].execd # <<>>

\* the symbol segment as the file name writes it
RawSymbol(name) == split(file_stem(name), "-")[1]
SixSegments(name) == Len(split(file_stem(name), "-")) = 6

\* the digits that end s
RECURSIVE TrailingDigits(_)
TrailingDigits(s) ==
  IF s = <<>> \/ ~IsDigit(s[Len(s)]) THEN 0
  ELSE 1 + TrailingDigits(SubSeq(s, 1, Len(s) - 1))

UpperMonthNumber(c) ==
  CASE c = "F" -> 1 [] c = "G" -> 2 [] c = "H" -> 3 [] c = "J" -> 4
    [] c = "K" -> 5 [] c = "M" -> 6 [] c = "N" -> 7 [] c = "Q" -> 8
    [] c = "U" -> 9 [] c = "V" -> 10 [] c = "X" -> 11 [] c = "Z" -> 12
    [] OTHER -> 0

\* s is: an optional '@', upper-case letters, a month code, digits
WrittenAsFutures(s) ==
  LET d == TrailingDigits(s)
      m == Len(s) - d
  IN /\ d >= 1
     /\ m >= 2
     /\ UpperMonthNumber(s[m]) # 0
     /\ \A k \in 1..(m - 1) : IsUpper(s[k]) \/ (k = 1 /\ s[k] = "@")
     /\ \E k \in 1..(m - 1) : IsUpper(s[k])

PivotYear(y) == IF y >= 40 THEN 1900 + y ELSE 2000 + y

\* C7: a symbol written as a futures symbol yields the root as written, the
\* month of its letter, the pivot-40 year, and the first day of that month.
C7_DecompositionAsWritten ==
  (pout # NotParsed /\ SixSegments(pin) /\ WrittenAsFutures(RawSymbol(pin)))
    => LET s == RawSymbol(pin)
           d == TrailingDigits(s)
           m == Len(s) - d
       IN /\ pout.outcome \in {"proceed", "skip_timeframe"}
          /\ pout.symbol_root = SubSeq(s, 1, m - 1)
          /\ pout.contract_date =
               FormatInt(PivotYear(parse_usize(SubSeq(s, m + 1, Len(s)))))
                 \o <<"-">> \o FormatInt02(UpperMonthNumber(s[m]))
                 \o <<"-", "0", "1">>

\* the symbol segment process_file works on
SymbolToken(name) == split(to_lowercase(file_stem(name)), "-")[1]

\* s is root, month letter, digits in the sense of line 312
FuturesShaped(s) ==
  LET d == TrailingDigits(s)
      m == Len(s) - d
  IN /\ d >= 1
     /\ m >= 2
     /\ RegexMonthChar(s[m])
     /\ \A k \in 1..(m - 1) : RegexRootChar(s[k])

NotSixSegments(e) == Entry(e).kind = "file" /\ ~SixSegments(Entry(e).name)

\* C9: a file whose name does not split into six segments is never opened,
\* read, prepared for or executed for, and no worker stops on it.
C9_SegmentSkip ==
  \A e \in 1..Len(entries) :
    NotSixSegments(e)
      => /\ ~flog[e].opened
         /\ flog[e].read = 0
         /\ flog[e].prepared = 0
         /\ flog[e].execd = <<>>
         /\ flog[e].outcome \in {"none", "skip"}
         /\ \A w \in Workers :
              /\ wfile[w] # e
              /\ (received[w] # <<>> /\ received[w][Len(received[w])] = e)
                   => wstate[w] \in {"recv", "drained", "killed"}

\* a worker received such a file and then its next item
C9_Witness ==
  \E w \in Workers :
    /\ Len(received[w]) >= 2
    /\ NotSixSegments(received[w][1])
    /\ flog[received[w][1]].outcome = "skip"

\* C10: the rows executed for a file are the first rows of the file, in
\* order, and none after a row that failed.
C10_RowsArePrefix ==
  \A e \in 1..Len(entries) :
    /\ Len(flog[e].execd) <= Len(Entry(e).rows)
    /\ \A i \in 1..Len(flog[e].execd) : flog[e].execd[i] = i
    /\ flog[e].failrow > 0 => Len(flog[e].execd) = flog[e].failrow - 1

\* a file failed on its second record, with its first one executed
C10_Witness ==
  \E e \in 1..Len(entries) :
    /\ flog[e].failrow = 2
    /\ flog[e].execd = <<1>>
    /\ flog[e].outcome = "panic"

\* C11: a worker prepares its two statements at most once over its lifetime,
\* however many files and rows it processes.
C11_PreparedOncePerConnection ==
  \A w \in Workers : prepares[w] <= 1

\* the extension of a file name: what follows its last '.', none when the
\* name has no '.' or only a leading one
HasExtension(name, ext) ==
  /\ file_stem(name) # name
  /\ name = file_stem(name) \o <<".">> \o ext

IsSent(e) == Occurrences(queue, e) + ReceivedBy(Workers, e) >= 1

\* C12: an entry the scanner has gone over was sent if and only if it is a
\* file whose lowercase extension is csv; a directory is never sent.
C12_SendsExactlyCsvFiles ==
  \A e \in 1..scanpos :
    (Entry(e).kind # "error" /\ Entry(e).utf8) =>
      (IsSent(e) <=> (/\ Entry(e).kind = "file"
                      /\ HasExtension(to_lowercase(Entry(e).name), <<"c","s","v">>)))

CsvFiles ==
  {e \in 1..Len(entries) :
     /\ Entry(e).kind = "file"
     /\ HasExtension(to_lowercase(Entry(e).name), <<"c","s","v">>)}
SkippedFiles == {e \in CsvFiles : flog[e].outcome \in {"skip", "open_error"}}
AbandonedFiles == {e \in CsvFiles : flog[e].outcome = "panic"}
ProcessedFiles == {e \in CsvFiles : flog[e].outcome = "done"}
\* the process of a run with workers, all of them connected, has ended
RunOver ==
  /\ threads >= 1
  /\ pc = "exited"
  /\ \A w \in Workers : wfail[w] # "connect"

\* C13: once a run is over, the skipped, abandoned and successfully processed
\* files together are all the csv files under the root, and none is left in
\* the channel.
C13_EveryFileAccounted ==
  RunOver =>
    /\ Cardinality(SkippedFiles) + Cardinality(AbandonedFiles)
         + Cardinality(ProcessedFiles) = Cardinality(CsvFiles)
    /\ queue = <<>>

\* s is: at most one '@', and then only in front; one or more letters; a month
\* code; one or more digits
GrammarAccepts(s) ==
  LET d == TrailingDigits(s)
      m == Len(s) - d
  IN /\ d >= 1
     /\ m >= 2
     /\ RegexMonthChar(s[m])
     /\ \A k \in 1..(m - 1) :
          IsUpper(s[k]) \/ IsLower(s[k]) \/ (k = 1 /\ s[k] = "@")
     /\ \E k \in 1..(m - 1) : IsUpper(s[k]) \/ IsLower(s[k])

\* process_file took the Some arm of the match at line 194
MatcherAccepted ==
  \/ pout.outcome = "panic_year"
  \/ pout.outcome \in {"proceed", "skip_timeframe"} /\ pout.contract_month # <<>>

\* C14: the matcher accepts a symbol exactly when it is an optional single
\* leading '@', one or more letters, one month-code letter and one or more
\* digits.
C14_MatcherGrammar ==
  (pout # NotParsed /\ SixSegments(pin))
    => (MatcherAccepted <=> GrammarAccepts(SymbolToken(pin)))

\* the year written in a contract date
DateYear(contract_date) == parse_usize(split(contract_date, "-")[1])

\* C15: for every symbol the matcher accepts, parsing the digits succeeds and
\* the contract year is a 4-digit integer.
C15_FourDigitYear ==
  (pout # NotParsed /\ SixSegments(pin) /\ FuturesShaped(SymbolToken(pin)))
    => /\ pout.outcome \in {"proceed", "skip_timeframe"}
       /\ DateYear(pout.contract_date) \in 1000..9999

\* a file with a six-segment name whose timeframe is neither day nor minute
UnsupportedTimeframe(e) ==
  /\ Entry(e).kind = "file"
  /\ SixSegments(Entry(e).name)
  /\ ~TimeframeSupported(split(to_lowercase(file_stem(Entry(e).name)), "-")[5])

\* C16: a six-segment file with an unsupported timeframe, whatever its symbol,
\* is never opened, read, prepared for or executed for, and the worker that
\* received it goes on receiving.
C16_TimeframeSkip ==
  \A e \in 1..Len(entries) :
    UnsupportedTimeframe(e)
      => /\ ~flog[e].opened
         /\ flog[e].read = 0
         /\ flog[e].prepared = 0
         /\ flog[e].execd = <<>>
         /\ flog[e].outcome \in {"none", "skip"}
         /\ \A w \in Workers :
              (received[w] # <<>> /\ received[w][Len(received[w])] = e)
                => wfile[w] = 0 /\ wstate[w] \in {"recv", "drained", "killed"}

TableCharacters ==
  Range(UpperLetters) \cup Range(LowerLetters) \cup Range(DigitChars)
    \cup {"@", "-"}

\* the table on every character: its error outside the month letters, a
\* month number on the lower-case month letters
TableAgreesWithPattern ==
  \A c \in TableCharacters :
    /\ ~RegexMonthChar(c) => cme_month_letter_to_number(<<c>>) = MonthErr
    /\ (RegexMonthChar(c) /\ IsLower(c))
         => cme_month_letter_to_number(<<c>>) \in 1..12

\* C17: the month table answers with its error for every character that is
\* not a CME month letter and with 1..12 for every month letter the matcher
\* captures from a case-folded name, so process_file never fails on the month.
C17_MonthLookupNeverFails ==
  /\ TableAgreesWithPattern
  /\ pout # NotParsed
       => /\ pout.outcome # "panic_month"
          /\ (pout.outcome \in {"proceed", "skip_timeframe"}
                /\ pout.contract_month # <<>>)
               => cme_month_letter_to_number(pout.contract_month) \in 1..12

\* a symbol written with an upper-case month letter got its month number
C17_Witness ==
  /\ pout # NotParsed
  /\ RawSymbol(pin) = <<"E", "J", "0">>
  /\ pout.contract_month = <<"j">>
  /\ pout.contract_date = <<"2","0","0","0","-","0","4","-","0","1">>

\* a day or minute file that yields no row stream: it cannot be opened, or its
\* header cannot be decoded
NoRowStream(e) ==
  /\ Entry(e).kind = "file"
  /\ HeadOf(e).outcome = "proceed"
  /\ ~Entry(e).readable \/ ~Entry(e).header_ok

\* no worker has been failed by the database
DatabaseAnswers ==
  \A w \in Workers : wfail[w] \notin {"connect", "prepare", "execute"}

\* C18: a file that cannot be opened as a row stream is logged and skipped: no
\* row of it is executed, and the worker that received it goes on receiving.
C18_OpenFailureSkips ==
  \A e \in 1..Len(entries) :
    (NoRowStream(e) /\ DatabaseAnswers)
      => /\ flog[e].execd = <<>>
         /\ flog[e].outcome \in {"none", "open_error"}
         /\ \A w \in Workers :
              (received[w] # <<>> /\ received[w][Len(received[w])] = e)
                => wfile[w] = 0 /\ wstate[w] \in {"recv", "drained", "killed"}

\* the scanner loop is still to run or running
ScannerTraversing == pc \in {"spawn", "scan"}

\* C19: whenever some worker is DRAINED, the scanner is no longer traversing
\* and the channel is empty.
C19_NoEarlyEndOfStream ==
  (\E w \in Workers : Drained(w)) => ~ScannerTraversing /\ queue = <<>>

\* a worker received an item, went on, and then saw the end of the stream
C19_Witness ==
  \E w \in Workers : Drained(w) /\ received[w] # <<>> /\ scanpos >= 1

\* C20: a symbol the matcher accepts, a year of value 0 included, gets a
\* contract date that is not empty, and a symbol it rejects gets the empty one.
C20_SentinelOnlyForRejected ==
  (pout # NotParsed /\ SixSegments(pin))
    => /\ pout.outcome \in {"proceed", "skip_timeframe"}
       /\ pout.contract_date = <<>> <=> ~FuturesShaped(SymbolToken(pin))

====
